---- MODULE Spec2Model ----
(***************************************************************************)
(* Model of src/app.py: the Zapier action bridge of the assistant demo.    *)
(*                                                                         *)
(*   Spec         AssistantAPI.run_assistant: run creation, the polling    *)
(*                loop, the processing of a requires_action batch by       *)
(*                ZapierActionAPI.execute_actions_from_assistant and the   *)
(*                submission of the collected outputs.                     *)
(*   SpecCatalog  ZapierActionAPI.get_formatted_tools_from_openapi_schema: *)
(*                the translation of an OpenAPI document into tool         *)
(*                definitions, one path per step, called by                *)
(*                AssistantAPI.create_assistant, which then asks the       *)
(*                provider to create the assistant.                        *)
(*                                                                         *)
(* The providers (OpenAI, Zapier) are the environment: every answer they   *)
(* can give is a nondeterministic choice.  A Python exception that leaves  *)
(* run_assistant is the control state "raised" with its type in error.     *)
(***************************************************************************)
EXTENDS Integers, Sequences, FiniteSets, TLC

(* ---------------------------------------------------------------- bounds *)
\* polls of the run status in one run_assistant call
MaxPolls == 4
\* tool calls in one requires_action batch
MaxBatch == 2
\* paths in one OpenAPI document
MaxPaths == 2

(* ------------------------------------------------------------- constants *)
\* time.sleep(5)
PollInterval == 5

VARIABLES
    tools,          \* self.assistant.tools
    pc,             \* position in run_assistant
    running_state,  \* local running_state of run_assistant
    status_code,    \* local status_code of run_assistant ("unbound" until assigned)
    current_status, \* local current_status: the status the last poll observed
    tool_calls,     \* tool_calls of the last requires_action batch
    idx,            \* position of the for loop of execute_actions_from_assistant
    tool_results,   \* local tool_results of execute_actions_from_assistant
    exec_log,       \* the execute_action calls made for that batch, in order
    submitted,      \* tool_outputs in flight to the provider (submit_tool_outputs)
    exec_failed,    \* ids of the tool calls of that batch whose execute_action raised
    executed_ids,   \* ids of the tool calls execute_action was called for, of
                    \* those the provider has not replaced by a new batch
    current_run,    \* self.current_run
    creates,        \* runs.create requests sent
    polls,          \* runs.retrieve requests sent
    slept,          \* total time suspended in time.sleep
    msg_lists,      \* messages.list requests sent
    submits,        \* submit_tool_outputs requests sent
    last_op,        \* the last clock or provider operation of run_assistant
    retval,         \* what run_assistant returned
    error,          \* the exception that left run_assistant
    openapi_schema, \* the document get_openapi_schema returned
    path_pos,       \* position of the for loop over openapi_schema['paths']
    formatted_tools, \* local formatted_tools
    assistant,      \* self.assistant: the handle create_assistant stores
    assistant_creates, \* assistants.create requests sent
    execution       \* one execute_action call: its arguments, the requests it
                    \* sent, the provider's answer and how the call ended

runVars == <<tools, pc, running_state, status_code, current_status, tool_calls,
             idx, tool_results, exec_log, submitted, exec_failed, executed_ids,
             current_run, creates, polls, slept, msg_lists, submits, last_op,
             retval, error>>

catalogVars == <<openapi_schema, path_pos, formatted_tools, assistant,
                 assistant_creates>>

vars == <<runVars, catalogVars, execution>>

(* ------------------------------------------------------------- utilities *)
Last(s) == s[Len(s)]

\* sequences over S of length at most n
SeqsUpTo(S, n) == UNION {[1..k -> S] : k \in 0..n}

\* Python's None
None == "None"

(* ------------------------------------------------------------ JSON codec *)
\* json.loads(tool_call.function.arguments): the decoded object, or a raise
\* (json.JSONDecodeError) when the text is not JSON
json_loads(text) ==
    CASE text = "{\"q\": 1}" -> [raised |-> FALSE, value |-> [q |-> 1]]
      [] text = "{\"q\":2}"  -> [raised |-> FALSE, value |-> [q |-> 2]]
      [] text = "{\"rows\":1}" -> [raised |-> FALSE, value |-> [rows |-> 1]]
      [] text = "{\"rows\": 2}" -> [raised |-> FALSE, value |-> [rows |-> 2]]
      [] OTHER -> [raised |-> TRUE]

\* json.dumps(result): Python's separators are ", " and ": "
json_dumps(value) ==
    CASE value = [q |-> 1] -> "{\"q\": 1}"
      [] value = [q |-> 2] -> "{\"q\": 2}"
      [] value = [rows |-> 1] -> "{\"rows\": 1}"
      [] value = [rows |-> 2] -> "{\"rows\": 2}"

(* ------------------------------------------------ the environment's data *)
FunctionTool(name, description) ==
    [type |-> "function",
     function |-> [name |-> name, description |-> description]]

\* a tool of another type has no function attribute
CodeInterpreterTool == [type |-> "code_interpreter"]

\* the tool lists an assistant can hold (created from a catalog, or retrieved)
AssistantToolLists ==
    { <<FunctionTool("f", "A1"), FunctionTool("g", "A2")>>,
      <<CodeInterpreterTool, FunctionTool("f", "A1"), FunctionTool("f", "A3")>> }

ToolNames == {"f", "g", "zz"}

ArgumentTexts == {"{\"q\": 1}", "{q"}

\* the id of the i-th tool call of the batch the provider first presents
\* at the poll of that number: no two tool calls share an id
ToolCallId(poll, i) == (poll - 1) * MaxBatch + i

ToolCallIds == {ToolCallId(poll, i) : poll \in 1..MaxPolls, i \in 1..MaxBatch}

\* the batches a requires_action run can present for the first time at the
\* poll of that number
ToolCallBatches(poll) ==
    UNION { { [i \in 1..k |-> [id |-> ToolCallId(poll, i), name |-> c[i][1],
                               arguments |-> c[i][2]]] :
                c \in [1..k -> ToolNames \X ArgumentTexts] } : k \in 0..MaxBatch }

\* the answers of the action provider to one POST
Responses == [status_code : {200, 404, 500}, text : {"{\"rows\":1}", "{\"rows\": 2}", "oops"}]

RunStatuses == {"queued", "in_progress", "requires_action", "completed",
                "expired", "canceled", "failed", "unknown_status"}

(* ------------------------------------------------------- ZapierActionAPI *)
\* the request execute_action sends: requests.post(url, json=payload)
execute_request(action_id, payload) ==
    [url |-> <<"/dynamic/exposed/", action_id, "/execute/">>, json |-> payload]

\* execute_action, given the provider's answer to its one POST: response.json()
\* on a 200 (which raises on a body that is not JSON), a raise otherwise
execute_action(action_id, payload, response) ==
    IF response.status_code = 200
    THEN LET body == json_loads(response.text)
         IN  IF body.raised
             THEN [raised |-> TRUE,
                   error |-> [type |-> "JSONDecodeError", args |-> <<>>]]
             ELSE [raised |-> FALSE, result |-> body.value]
    ELSE [raised |-> TRUE,
          error |-> [type |-> "Exception",
                     args |-> <<"Failed to execute action: ", response.text>>]]

NotFound == [found |-> FALSE]

\* the scan without the comparison of the names
RECURSIVE scan_tools_any_name(_, _, _)
scan_tools_any_name(tool_name, assistant_tools, i) ==
    IF i > Len(assistant_tools)
    THEN NotFound
    ELSE IF assistant_tools[i].type = "function"
         THEN [found |-> TRUE, function |-> assistant_tools[i].function]
         ELSE scan_tools_any_name(tool_name, assistant_tools, i + 1)

\* the scan returning the last function tool of that name, not the first
RECURSIVE scan_tools_last_match(_, _, _)
scan_tools_last_match(tool_name, assistant_tools, i) ==
    IF i > Len(assistant_tools)
    THEN NotFound
    ELSE LET later == scan_tools_last_match(tool_name, assistant_tools, i + 1)
         IN  IF later.found
             THEN later
             ELSE IF /\ assistant_tools[i].type = "function"
                     /\ assistant_tools[i].function.name = tool_name
                  THEN [found |-> TRUE, function |-> assistant_tools[i].function]
                  ELSE NotFound

RECURSIVE scan_tools(_, _, _)
scan_tools(tool_name, assistant_tools, i) ==
    IF i > Len(assistant_tools)
    THEN NotFound
    ELSE IF /\ assistant_tools[i].type = "function"
            /\ assistant_tools[i].function.name = tool_name
         THEN [found |-> TRUE, function |-> assistant_tools[i].function]
         ELSE scan_tools(tool_name, assistant_tools, i + 1)

\* find_function_tool_by_name: the first function tool of that name, or None
find_function_tool_by_name(tool_name, assistant_tools) ==
    scan_tools(tool_name, assistant_tools, 1)

\* the loop body without the try/except around execute_action
handle_tool_call_without_except(tool_call, assistant_tools, response, results) ==
    LET function_tool == find_function_tool_by_name(tool_call.name, assistant_tools)
    IN  IF function_tool.found
        THEN LET action_id == function_tool.function.description
                 arguments == json_loads(tool_call.arguments)
             IN  IF arguments.raised
                 THEN [raised |-> TRUE, error |-> "JSONDecodeError",
                       failed |-> FALSE, calls |-> <<>>, tool_results |-> results]
                 ELSE LET zapier_payload == arguments.value
                          answer == execute_action(action_id, zapier_payload, response)
                          call == [tool_call_id |-> tool_call.id,
                                   request |-> execute_request(action_id, zapier_payload)]
                      IN  IF answer.raised
                          THEN [raised |-> TRUE, error |-> "Exception",
                                failed |-> TRUE, calls |-> <<call>>,
                                tool_results |-> results]
                          ELSE [raised |-> FALSE, failed |-> FALSE,
                                calls |-> <<call>>,
                                tool_results |->
                                    Append(results,
                                           [tool_call_id |-> tool_call.id,
                                            output |-> json_dumps(answer.result)])]
        ELSE [raised |-> FALSE, failed |-> FALSE, calls |-> <<>>,
              tool_results |-> results]

\* the loop body taking the name of the resolved tool as the action id
handle_tool_call_addressed_by_name(tool_call, assistant_tools, response, results) ==
    LET function_tool == find_function_tool_by_name(tool_call.name, assistant_tools)
    IN  IF function_tool.found
        THEN LET action_id == function_tool.function.name
                 arguments == json_loads(tool_call.arguments)
             IN  IF arguments.raised
                 THEN [raised |-> TRUE, error |-> "JSONDecodeError",
                       failed |-> FALSE, calls |-> <<>>, tool_results |-> results]
                 ELSE LET zapier_payload == arguments.value
                          answer == execute_action(action_id, zapier_payload, response)
                      IN  [raised |-> FALSE,
                           failed |-> answer.raised,
                           calls |-> <<[tool_call_id |-> tool_call.id,
                                        request |-> execute_request(action_id, zapier_payload)]>>,
                           tool_results |->
                               IF answer.raised
                               THEN results
                               ELSE Append(results,
                                           [tool_call_id |-> tool_call.id,
                                            output |-> json_dumps(answer.result)])]
        ELSE [raised |-> FALSE, failed |-> FALSE, calls |-> <<>>,
              tool_results |-> results]

\* one pass of the loop body of execute_actions_from_assistant over tool_call,
\* with results the tool_results so far and response the provider's answer to
\* the POST (if one is sent).  json.loads is outside the try; execute_action
\* and json.dumps are inside it.
handle_tool_call(tool_call, assistant_tools, response, results) ==
    LET function_tool == find_function_tool_by_name(tool_call.name, assistant_tools)
    IN  IF function_tool.found
        THEN LET action_id == function_tool.function.description
                 arguments == json_loads(tool_call.arguments)
             IN  IF arguments.raised
                 THEN [raised |-> TRUE, error |-> "JSONDecodeError",
                       failed |-> FALSE, calls |-> <<>>, tool_results |-> results]
                 ELSE LET zapier_payload == arguments.value
                          answer == execute_action(action_id, zapier_payload, response)
                      IN  [raised |-> FALSE,
                           failed |-> answer.raised,
                           calls |-> <<[tool_call_id |-> tool_call.id,
                                        request |-> execute_request(action_id, zapier_payload)]>>,
                           tool_results |->
                               IF answer.raised
                               THEN results
                               ELSE Append(results,
                                           [tool_call_id |-> tool_call.id,
                                            output |-> json_dumps(answer.result)])]
        ELSE [raised |-> FALSE, failed |-> FALSE, calls |-> <<>>,
              tool_results |-> results]

(* ---------------------------------------------------------- AssistantAPI *)
\* the chain with the failed branch leaving running_state set
status_branch_failed_keeps_running(status) ==
    CASE status = "requires_action" -> "action"
      [] status = "completed" -> "completed"
      [] status = "expired" -> "stop"
      [] status = "canceled" -> "stop"
      [] OTHER -> "loop"

\* the chain with the expired branch retrieving the messages too
status_branch_expired_retrieves(status) ==
    CASE status = "requires_action" -> "action"
      [] status = "completed" -> "completed"
      [] status = "expired" -> "completed"
      [] status = "canceled" -> "stop"
      [] status = "failed" -> "stop"
      [] OTHER -> "loop"

\* the if/elif chain of run_assistant on current_status
status_branch(status) ==
    CASE status = "queued" -> "loop"
      [] status = "in_progress" -> "loop"
      [] status = "requires_action" -> "action"
      [] status = "completed" -> "completed"
      [] status = "expired" -> "stop"
      [] status = "canceled" -> "stop"
      [] status = "failed" -> "stop"
      [] OTHER -> "loop"

\* the completed branch leaving the loop without listing the messages
after_branch_without_retrieval(branch) ==
    CASE branch = "loop" -> "sleep"
      [] branch = "action" -> "batch"
      [] branch = "completed" -> "return"
      [] branch = "stop" -> "return"

\* where the while loop goes after the branch: running_state decides
\* the loop going from one poll to the next without time.sleep
after_branch_polling_at_once(branch) ==
    CASE branch = "loop" -> "poll"
      [] branch = "action" -> "batch"
      [] branch = "completed" -> "retrieve"
      [] branch = "stop" -> "return"

after_branch(branch) ==
    CASE branch = "loop" -> "sleep"
      [] branch = "action" -> "batch"
      [] branch = "completed" -> "retrieve"
      [] branch = "stop" -> "return"

runCatalogUnchanged == UNCHANGED <<catalogVars, execution>>

\* run_assistant entering the loop whatever create_run returned
after_create_run_unchecked(created) == "sleep"

\* if self.create_run(): enter the loop; else: return
after_create_run(created) == IF created THEN "sleep" ELSE "done"

\* create_run, and run_assistant's test of what it returned
create_run ==
    /\ pc = "start"
    /\ creates' = creates + 1
    /\ last_op' = "create_run"
    /\ \/ /\ current_run' = "run"       \* the run object: truthy
          /\ pc' = after_create_run(TRUE)
       \/ /\ current_run' = current_run \* the provider raised: caught, None
          /\ pc' = after_create_run(FALSE)
    /\ running_state' = (pc' = "sleep")
    /\ retval' = IF pc' = "done" THEN None ELSE retval
    /\ UNCHANGED <<tools, status_code, current_status, tool_calls, idx,
                   tool_results, exec_log, submitted, exec_failed, executed_ids,
                   polls, slept, msg_lists, submits, error>>
    /\ runCatalogUnchanged

\* while running_state: time.sleep(5), while the provider has answered
\* fewer than limit polls
sleep_while(limit) ==
    /\ pc = "sleep"
    /\ running_state
    /\ polls < limit
    /\ slept' = slept + PollInterval
    /\ last_op' = "sleep"
    /\ pc' = "poll"
    /\ UNCHANGED <<tools, running_state, status_code, current_status, tool_calls,
                   idx, tool_results, exec_log, submitted, exec_failed,
                   executed_ids, current_run, creates, polls, msg_lists,
                   submits, retval, error>>
    /\ runCatalogUnchanged

\* the provider still waits for outputs of the batch it presented: the last
\* poll observed requires_action and fewer outputs than tool calls were
\* submitted since
OutputsPending ==
    current_status = "requires_action" /\ Len(submitted) < Len(tool_calls)

\* check_run_state and the branch on the status, the provider answering with
\* one of answers and, for requires_action, with a batch of tool calls
poll_run(answers) ==
    /\ pc = "poll"
    /\ polls' = polls + 1
    /\ last_op' = "check_run_state"
    /\ submitted' = <<>>                \* the provider has taken the outputs
    /\ exec_failed' = {}
    /\ \/ \E status \in answers :
            LET branch == status_branch(status)
            IN  /\ current_status' = status
                /\ pc' = after_branch(branch)
                /\ running_state' = (branch \in {"loop", "action"})
                /\ IF branch = "action"
                   THEN /\ \E batch \in IF OutputsPending
                                         THEN {tool_calls} \* the same tool calls
                                         ELSE ToolCallBatches(polls + 1) :
                              tool_calls' = batch
                        /\ executed_ids' = IF OutputsPending
                                           THEN executed_ids
                                           ELSE {}
                        /\ idx' = 1
                        /\ tool_results' = <<>>
                        /\ exec_log' = <<>>
                   ELSE UNCHANGED <<tool_calls, idx, tool_results, exec_log,
                                    executed_ids>>
                /\ error' = error
       \/ /\ pc' = "raised"             \* runs.retrieve raised: nothing catches it
          /\ error' = "APIError"
          /\ UNCHANGED <<current_status, running_state, tool_calls, idx,
                         tool_results, exec_log, executed_ids>>
    /\ UNCHANGED <<tools, status_code, current_run, creates, slept, msg_lists,
                   submits, retval>>
    /\ runCatalogUnchanged

time_sleep == sleep_while(MaxPolls)

check_run_state == poll_run(RunStatuses)

\* the for loop left after its first iteration
for_loop_ended_after_first(position, calls) ==
    position > 1 \/ position > Len(calls)

\* for tool_call in tool_calls: the loop has gone through every tool call
for_loop_ended(position, calls) == position > Len(calls)

\* one iteration of the for loop of execute_actions_from_assistant
execute_actions_from_assistant ==
    /\ pc = "batch"
    /\ ~for_loop_ended(idx, tool_calls)
    /\ \E response \in Responses :
          LET step == handle_tool_call(tool_calls[idx], tools, response, tool_results)
          IN  /\ exec_log' = exec_log \o step.calls
              /\ executed_ids' = executed_ids \cup
                                   {step.calls[i].tool_call_id : i \in 1..Len(step.calls)}
              /\ exec_failed' = IF step.failed
                                THEN exec_failed \cup {tool_calls[idx].id}
                                ELSE exec_failed
              /\ last_op' = IF step.calls = <<>> THEN last_op ELSE "execute_action"
              /\ tool_results' = step.tool_results
              /\ IF step.raised
                 THEN /\ pc' = "raised"
                      /\ error' = step.error
                      /\ idx' = idx
                 ELSE /\ pc' = "batch"
                      /\ error' = error
                      /\ idx' = idx + 1
    /\ UNCHANGED <<tools, running_state, status_code, current_status, tool_calls,
                   submitted, current_run, creates, polls, slept, msg_lists,
                   submits, retval>>
    /\ runCatalogUnchanged

\* the end of the for loop, and run_zapier_action's submit_tool_outputs
run_zapier_action ==
    /\ pc = "batch"
    /\ for_loop_ended(idx, tool_calls)
    /\ submits' = submits + 1
    /\ submitted' = tool_results
    /\ tool_results' = <<>>             \* the locals of the two calls are gone
    /\ last_op' = "submit_tool_outputs"
    /\ \/ /\ pc' = "sleep"
          /\ error' = error
       \/ /\ pc' = "raised"             \* the provider raised: nothing catches it
          /\ error' = "APIError"
    /\ UNCHANGED <<tools, running_state, status_code, current_status, tool_calls,
                   idx, exec_log, exec_failed, executed_ids, current_run,
                   creates, polls, slept, msg_lists, retval>>
    /\ runCatalogUnchanged

\* status_code = self.retrieve_all_message_of_thread(): 200, or None when
\* messages.list raised
retrieve_all_message_of_thread ==
    /\ pc = "retrieve"
    /\ msg_lists' = msg_lists + 1
    /\ last_op' = "messages_list"
    /\ status_code' \in {"200", None}
    /\ pc' = "return"
    /\ UNCHANGED <<tools, running_state, current_status, tool_calls, idx,
                   tool_results, exec_log, submitted, exec_failed, executed_ids,
                   current_run, creates, polls, slept, submits, retval, error>>
    /\ runCatalogUnchanged

\* return status_code: an UnboundLocalError when no branch assigned it
return_status_code ==
    /\ pc = "return"
    /\ IF status_code = "unbound"
       THEN /\ pc' = "raised"
            /\ error' = "UnboundLocalError"
            /\ retval' = retval
       ELSE /\ pc' = "done"
            /\ error' = error
            /\ retval' = status_code
    /\ UNCHANGED <<tools, running_state, status_code, current_status, tool_calls,
                   idx, tool_results, exec_log, submitted, exec_failed,
                   executed_ids, current_run, creates, polls, slept, msg_lists,
                   submits, last_op>>
    /\ runCatalogUnchanged

\* no execute_action call under observation
NoExecution == [posts |-> <<>>]

InitCatalogIdle ==
    /\ openapi_schema = <<>>
    /\ path_pos = 0
    /\ formatted_tools = <<>>

Init ==
    /\ tools \in AssistantToolLists
    /\ pc = "start"
    /\ running_state = FALSE
    /\ status_code = "unbound"
    /\ current_status = "none"
    /\ tool_calls = <<>>
    /\ idx = 0
    /\ tool_results = <<>>
    /\ exec_log = <<>>
    /\ submitted = <<>>
    /\ exec_failed = {}
    /\ executed_ids = {}
    /\ current_run = "none"
    /\ creates = 0
    /\ polls = 0
    /\ slept = 0
    /\ msg_lists = 0
    /\ submits = 0
    /\ last_op = "none"
    /\ retval = "pending"
    /\ error = "none"
    /\ assistant = "asst_old"           \* the assistant the run is created for
    /\ assistant_creates = 0
    /\ execution = NoExecution
    /\ InitCatalogIdle

Next ==
    \/ create_run
    \/ time_sleep
    \/ check_run_state
    \/ execute_actions_from_assistant
    \/ run_zapier_action
    \/ retrieve_all_message_of_thread
    \/ return_status_code

Spec == Init /\ [][Next]_vars

(* ------------------------------- a run with one round of tool calls *)
\* the statuses the provider answers, poll by poll
HappyPath == <<"queued", "in_progress", "requires_action", "in_progress",
               "completed">>

happy_time_sleep == sleep_while(Len(HappyPath))

happy_check_run_state ==
    /\ polls < Len(HappyPath)
    /\ poll_run({HappyPath[polls + 1]})

NextHappyPath ==
    \/ create_run
    \/ happy_time_sleep
    \/ happy_check_run_state
    \/ execute_actions_from_assistant
    \/ run_zapier_action
    \/ retrieve_all_message_of_thread
    \/ return_status_code

SpecHappyPath == Init /\ [][NextHappyPath]_vars

(* ------------------------------------------------- the action catalog *)
\* A path is the sequence of its "/" and of the segments between them.
Join(segments, trailing_slash) ==
    LET RECURSIVE joined(_)
        joined(i) == IF i > Len(segments) THEN <<>>
                     ELSE <<"/", segments[i]>> \o joined(i + 1)
    IN  joined(1) \o (IF trailing_slash THEN <<"/">> ELSE <<>>)

\* the segment lists of the paths a document can declare
PathSegments ==
    { <<"api", "v1", "exposed", "01ABC", "execute">>,
      <<"api", "v1", "exposed", "01XYZ", "execute">>,
      <<"api", "v1", "exposed", "execute">>,
      <<"api", "v1", "exposed", "a", "b", "execute">>,
      <<"api", "v1", "exposed", "01ABC">>,
      <<"api", "v2", "exposed", "01ABC", "execute">> }

Paths ==
    {Join(g, TRUE) : g \in PathSegments}
        \cup {Join(<<"api", "v1", "exposed", "01ABC", "execute">>, FALSE)}

\* Python's {} and dict.get(key, default)
EmptyDict == <<>>

Get(dict, key, default) == IF key \in DOMAIN dict THEN dict[key] ELSE default

\* a requestBody whose application/json schema is a $ref to components/schemas
RequestBody(schema_name) ==
    [content |-> ("application/json" :>
        [schema |-> ("$ref" :> <<"#", "/", "components", "/", "schemas", "/",
                                 schema_name>>)])]

\* the path items a document can hold
PathItems ==
    { [post |-> [operationId |-> "op_a", requestBody |-> RequestBody("S1")]],
      [post |-> [operationId |-> "op_a", requestBody |-> RequestBody("S2")]],
      [post |-> [operationId |-> "op_b"]],
      [post |-> [requestBody |-> RequestBody("S9")]],
      [get |-> [operationId |-> "op_c"]] }

\* openapi_schema['components']
Components ==
    [schemas |->
        [S1 |-> [type |-> "object", properties |-> [sheet |-> "string"],
                 required |-> <<"sheet">>],
         S2 |-> [properties |-> [row |-> "integer"]]]]

\* the documents the schema endpoint can answer with: paths is a dict, so
\* its keys are distinct, and it keeps their order
OpenApiDocuments ==
    { [paths |-> entries, components |-> Components] :
        entries \in { e \in SeqsUpTo(Paths \X PathItems, MaxPaths) :
                        \A i, j \in 1..Len(e) : i # j => e[i][1] # e[j][1] } }

\* str.startswith and str.endswith
startswith(text, prefix) ==
    Len(text) >= Len(prefix) /\ SubSeq(text, 1, Len(prefix)) = prefix

endswith(text, suffix) ==
    /\ Len(text) >= Len(suffix)
    /\ SubSeq(text, Len(text) - Len(suffix) + 1, Len(text)) = suffix

\* str.split('/'): the pieces between the slashes, empty ones included
RECURSIVE split_from(_, _, _)
split_from(text, i, piece) ==
    IF i > Len(text) THEN <<piece>>
    ELSE IF text[i] = "/" THEN <<piece>> \o split_from(text, i + 1, "")
         ELSE split_from(text, i + 1, text[i])

split(text) == split_from(text, 1, "")

ExposedPrefix == <<"/", "api", "/", "v1", "/", "exposed", "/">>

ExecuteSuffix == <<"/", "execute", "/">>

\* the if of the loop body testing the prefix alone
is_exposed_prefix_only(path) == startswith(path, ExposedPrefix)

\* the path is one the loop formats: the if of the loop body
is_exposed_execute(path) ==
    startswith(path, ExposedPrefix) /\ endswith(path, ExecuteSuffix)

\* function_parameters of a post method
function_parameters_of(post_method, document) ==
    LET request_body_ref ==
            Get(Get(Get(Get(Get(post_method, "requestBody", EmptyDict),
                            "content", EmptyDict),
                        "application/json", EmptyDict),
                    "schema", EmptyDict),
                "$ref", <<>>)
    IN  IF request_body_ref # <<>>
        THEN LET ref_key == Last(split(request_body_ref))
                 schema == Get(document.components.schemas, ref_key, EmptyDict)
             IN  [type |-> Get(schema, "type", "object"),
                  properties |-> Get(schema, "properties", EmptyDict),
                  required |-> Get(schema, "required", <<>>)]
        ELSE EmptyDict

\* the loop body of get_formatted_tools_from_openapi_schema: the tools that
\* one entry of paths appends
format_path(path, path_item, document) ==
    IF is_exposed_execute(path)
    THEN LET post_method == Get(path_item, "post", EmptyDict)
             name == Get(post_method, "operationId", "")
             action_id == IF Len(split(path)) > 4 THEN split(path)[5] ELSE None
         IN  << [type |-> "function",
                 function |-> [name |-> name,
                               description |-> action_id,
                               parameters |->
                                   function_parameters_of(post_method, document)]] >>
    ELSE <<>>

InitRunIdle ==
    /\ tools = <<>>
    /\ running_state = FALSE
    /\ status_code = "unbound"
    /\ current_status = "none"
    /\ tool_calls = <<>>
    /\ idx = 0
    /\ tool_results = <<>>
    /\ exec_log = <<>>
    /\ submitted = <<>>
    /\ exec_failed = {}
    /\ executed_ids = {}
    /\ current_run = "none"
    /\ creates = 0
    /\ polls = 0
    /\ slept = 0
    /\ msg_lists = 0
    /\ submits = 0
    /\ last_op = "none"
    /\ retval = "pending"
    /\ error = "none"

catalogRunUnchanged ==
    UNCHANGED <<tools, running_state, status_code, current_status, tool_calls,
                idx, tool_results, exec_log, submitted, exec_failed,
                executed_ids, current_run, creates, polls, slept, msg_lists,
                submits, last_op, retval, execution>>

\* the RequestException caught and an empty tool list returned
after_schema_fetch_failure_swallowed(fetched) ==
    IF fetched THEN "paths" ELSE "done"

\* where control goes from openapi_schema = self.get_openapi_schema(): on
\* into the loop, or out of get_formatted_tools_from_openapi_schema and of
\* create_assistant with the RequestException, which neither catches
after_schema_fetch(fetched) == IF fetched THEN "paths" ELSE "raised"

\* openapi_schema = self.get_openapi_schema(): the document of a 200 answer,
\* or the RequestException of _make_get_request
get_openapi_schema ==
    /\ pc = "fetch"
    /\ \/ \E document \in OpenApiDocuments :
            /\ openapi_schema' = document
            /\ path_pos' = 1
            /\ pc' = after_schema_fetch(TRUE)
            /\ error' = error
       \/ /\ pc' = after_schema_fetch(FALSE)
          /\ error' = "RequestException"
          /\ UNCHANGED <<openapi_schema, path_pos>>
    /\ formatted_tools' = <<>>
    /\ UNCHANGED <<assistant, assistant_creates>>
    /\ catalogRunUnchanged

\* one iteration of the for loop over openapi_schema['paths'].items()
format_next_path ==
    /\ pc = "paths"
    /\ path_pos <= Len(openapi_schema.paths)
    /\ formatted_tools' =
          formatted_tools \o format_path(openapi_schema.paths[path_pos][1],
                                         openapi_schema.paths[path_pos][2],
                                         openapi_schema)
    /\ path_pos' = path_pos + 1
    /\ UNCHANGED <<pc, error, openapi_schema, assistant, assistant_creates>>
    /\ catalogRunUnchanged

\* return formatted_tools
return_formatted_tools ==
    /\ pc = "paths"
    /\ path_pos > Len(openapi_schema.paths)
    /\ pc' = "done"
    /\ UNCHANGED <<error, openapi_schema, path_pos, formatted_tools, assistant,
                   assistant_creates>>
    /\ catalogRunUnchanged

\* the try block of create_assistant, reached when line 185 has returned
\* formatted_tools: one assistants.create request; the new assistant is
\* stored and 200 returned, or the provider raised, which is caught and
\* None returned
create_assistant ==
    /\ pc = "done"
    /\ assistant_creates' = assistant_creates + 1
    /\ \/ /\ assistant' = "asst_new"
          /\ tools' = formatted_tools
          /\ retval' = "200"
       \/ /\ UNCHANGED <<assistant, tools>>
          /\ retval' = None
    /\ pc' = "created"
    /\ UNCHANGED <<running_state, status_code, current_status, tool_calls, idx,
                   tool_results, exec_log, submitted, exec_failed, executed_ids,
                   current_run, creates, polls, slept, msg_lists, submits,
                   last_op, error, openapi_schema, path_pos, formatted_tools,
                   execution>>

InitCatalog ==
    /\ pc = "fetch"
    /\ openapi_schema = EmptyDict
    /\ path_pos = 0
    /\ formatted_tools = <<>>
    /\ assistant \in {"unset", "asst_old"}
    /\ assistant_creates = 0
    /\ execution = NoExecution
    /\ InitRunIdle

NextCatalog ==
    \/ get_openapi_schema
    \/ format_next_path
    \/ return_formatted_tools
    \/ create_assistant

SpecCatalog == InitCatalog /\ [][NextCatalog]_vars

(* ------------------------------------------------ one execute_action call *)
\* the action ids and payloads execute_action can be called with
ActionIds == {"A1", "A2", "A3", "01ABC", "01XYZ"}

Payloads == {[q |-> 1], [q |-> 2], [rows |-> 1]}

\* ZapierActionAPI.execute_action called with execution.action_id and
\* execution.payload: the POST, the provider's answer, and the return of
\* response.json() or the raise
call_execute_action ==
    /\ pc = "execute"
    /\ \E response \in Responses :
          LET answer == execute_action(execution.action_id, execution.payload,
                                       response)
          IN  /\ execution' =
                    [action_id |-> execution.action_id,
                     payload |-> execution.payload,
                     posts |-> Append(execution.posts,
                                      execute_request(execution.action_id,
                                                      execution.payload)),
                     response |-> response,
                     outcome |-> answer]
              /\ pc' = IF answer.raised THEN "raised" ELSE "done"
              /\ error' = IF answer.raised THEN answer.error.type ELSE error
    /\ UNCHANGED <<tools, running_state, status_code, current_status, tool_calls,
                   idx, tool_results, exec_log, submitted, exec_failed,
                   executed_ids, current_run, creates, polls, slept, msg_lists,
                   submits, last_op, retval>>
    /\ UNCHANGED catalogVars

InitExecuteAction ==
    /\ pc = "execute"
    /\ \E action_id \in ActionIds, payload \in Payloads :
          execution = [action_id |-> action_id, payload |-> payload,
                       posts |-> <<>>]
    /\ assistant = "asst_old"
    /\ assistant_creates = 0
    /\ InitCatalogIdle
    /\ InitRunIdle

NextExecuteAction == call_execute_action

SpecExecuteAction == InitExecuteAction /\ [][NextExecuteAction]_vars

(* ================================================================ claims *)
TerminalStatuses == {"completed", "expired", "canceled", "failed"}

\* the assistant has a function tool of that name
HasFunctionTool(name) ==
    \E i \in 1..Len(tools) : tools[i].type = "function" /\ tools[i].function.name = name

\* the argument texts that are JSON
JsonTexts == {"{\"q\": 1}"}

\* the ids of a sequence of tool calls, of outputs or of logged calls
CallIds(calls) == [i \in 1..Len(calls) |-> calls[i].id]
OutputIds(outputs) == [i \in 1..Len(outputs) |-> outputs[i].tool_call_id]

\* run_assistant has ended, by a return or by an exception
Ended == pc \in {"done", "raised"}

(* C1: whenever the last status polled is failed, expired or canceled,     *)
(* run_assistant ends by returning to its caller, not in an error, and has *)
(* not retrieved the thread's messages.                                    *)
C1_TerminalOutcomeWithoutError ==
    (current_status \in {"failed", "expired", "canceled"} /\ Ended)
        => (pc = "done" /\ error = "none" /\ msg_lists = 0)

\* how many execute_action calls the log holds for a tool call id
Executions(id) == Cardinality({i \in 1..Len(exec_log) : exec_log[i].tool_call_id = id})

\* the five polls of HappyPath were answered and run_assistant has ended
HappyPathEnded == polls = Len(HappyPath) /\ current_status = "completed" /\ Ended

(* C2 as stated: after the statuses queued, in_progress, requires_action,  *)
(* in_progress, completed the status was retrieved at least twice,         *)
(* execute_action was called exactly once for every tool call of the       *)
(* batch, and the messages were listed exactly once before the return.     *)
C2_EveryPendingCallExecutedOnce ==
    HappyPathEnded
        => /\ polls >= 2
           /\ \A i \in 1..Len(tool_calls) : Executions(tool_calls[i].id) = 1
           /\ msg_lists = 1
           /\ pc = "done"

(* C2 amended: after those statuses the status was retrieved at least      *)
(* twice, execute_action was called exactly once for every tool call of    *)
(* the batch whose name is that of a function tool of the assistant and    *)
(* never for another one, the outputs were submitted once, and the         *)
(* messages were listed exactly once before the return.                    *)
C2_EveryResolvedCallExecutedOnce ==
    HappyPathEnded
        => /\ polls >= 2
           /\ \A i \in 1..Len(tool_calls) :
                Executions(tool_calls[i].id) =
                    IF HasFunctionTool(tool_calls[i].name) THEN 1 ELSE 0
           /\ Len(exec_log) <= Len(tool_calls)
           /\ submits = 1
           /\ msg_lists = 1
           /\ pc = "done"

C2_Witness ==
    /\ HappyPathEnded
    /\ Len(tool_calls) = 2
    /\ Len(exec_log) = 2
    /\ msg_lists = 1

\* every tool call of the batch names a function tool and has JSON arguments
AllResolveAndParse ==
    \A i \in 1..Len(tool_calls) :
        HasFunctionTool(tool_calls[i].name) /\ tool_calls[i].arguments \in JsonTexts

\* the last poll presented a batch, which is being processed or was just
\* submitted
InBatch ==
    /\ current_status = "requires_action"
    /\ last_op \in {"check_run_state", "execute_action", "submit_tool_outputs"}

\* the outputs collected so far, or the ones just submitted
Outputs == IF last_op = "submit_tool_outputs" THEN submitted ELSE tool_results

\* the tool calls of the batch the for loop has passed
Processed == SubSeq(tool_calls, 1, idx - 1)

\* the subsequence of a sequence of ids outside a set
RECURSIVE Without(_, _)
Without(ids, S) ==
    IF ids = <<>> THEN <<>>
    ELSE IF Head(ids) \in S THEN Without(Tail(ids), S)
         ELSE <<Head(ids)>> \o Without(Tail(ids), S)

(* C3: in a batch whose tool calls all resolve and have JSON arguments and *)
(* in which execute_action has failed for exactly one, every tool call the *)
(* loop has passed was executed, the outputs are those of the passed calls *)
(* but the failed one (K-1 at the end), no exception has left the batch,   *)
(* and those are the outputs the submission carries.                       *)
C3_OneFailureIsIsolated ==
    (InBatch /\ AllResolveAndParse /\ Cardinality(exec_failed) = 1)
        => /\ error \in {"none", "APIError"}
           /\ pc = "raised" => last_op = "submit_tool_outputs"
           /\ [i \in 1..Len(exec_log) |-> exec_log[i].tool_call_id] = CallIds(Processed)
           /\ OutputIds(Outputs) = Without(CallIds(Processed), exec_failed)
           /\ Len(Outputs) = Len(Processed) - 1
           /\ last_op = "submit_tool_outputs" => Len(submitted) = Len(tool_calls) - 1

C3_Witness ==
    /\ last_op = "submit_tool_outputs"
    /\ Len(tool_calls) = 2
    /\ AllResolveAndParse
    /\ exec_failed = {tool_calls[1].id}
    /\ Len(submitted) = 1

(* C4: the step of the for loop over a tool call whose arguments are not   *)
(* JSON lets no exception escape, adds no output and goes on to the next   *)
(* tool call of the batch.                                                 *)
C4_BadArgumentsAreSkipped ==
    [][(/\ pc = "batch"
        /\ idx <= Len(tool_calls)
        /\ tool_calls[idx].arguments \notin JsonTexts)
          => (/\ pc' = "batch"
              /\ idx' = idx + 1
              /\ error' = error
              /\ tool_results' = tool_results)]_vars

(* C5: the step of the for loop over a tool call whose name is that of no  *)
(* function tool of the assistant raises nothing, calls execute_action for *)
(* nothing, adds no output and goes on to the next tool call.              *)
C5_UnknownNameIsSkipped ==
    [][(/\ pc = "batch"
        /\ idx <= Len(tool_calls)
        /\ ~HasFunctionTool(tool_calls[idx].name))
          => (/\ pc' = "batch"
              /\ idx' = idx + 1
              /\ error' = error
              /\ exec_log' = exec_log
              /\ executed_ids' = executed_ids
              /\ tool_results' = tool_results)]_vars

C5_Witness ==
    /\ last_op = "submit_tool_outputs"
    /\ Len(tool_calls) = 2
    /\ ~HasFunctionTool(tool_calls[1].name)
    /\ OutputIds(submitted) = <<tool_calls[2].id>>

(* C6: once a poll has observed completed, expired, canceled or failed, no *)
(* later step retrieves the run status, sleeps for another poll, executes  *)
(* an action or submits tool outputs.                                      *)
C6_NoActivityAfterTerminal ==
    [][(current_status \in TerminalStatuses)
          => (/\ polls' = polls
              /\ slept' = slept
              /\ submits' = submits
              /\ exec_log' = exec_log
              /\ executed_ids' = executed_ids)]_vars

C6_Witness ==
    /\ current_status \in TerminalStatuses
    /\ Ended
    /\ polls >= 2
    /\ submits >= 1
    /\ executed_ids # {}

(* C7: when the provider rejects the run creation, run_assistant has sent  *)
(* exactly one creation request, has returned None (not 200) to its caller *)
(* and has neither slept, polled, executed, submitted nor listed messages. *)
C7_CreationFailureNotRetried ==
    (creates >= 1 /\ current_run = "none")
        => /\ creates = 1
           /\ pc = "done"
           /\ retval = None
           /\ error = "none"
           /\ slept = 0
           /\ polls = 0
           /\ executed_ids = {}
           /\ submits = 0
           /\ msg_lists = 0

C7_Witness == creates = 1 /\ current_run = "none" /\ pc = "done"

(* C8: the messages of the thread are listed at most once in a run, and    *)
(* the only step that lists them is the one right after a poll that        *)
(* observed completed.                                                     *)
C8_MessagesOnlyAfterCompleted ==
    [][msg_lists' # msg_lists
          => (/\ msg_lists = 0
              /\ msg_lists' = 1
              /\ last_op = "check_run_state"
              /\ current_status = "completed")]_vars

C8_Witness == msg_lists = 1 /\ current_status = "completed" /\ polls >= 2

\* the segments a path was written with, and whether it ends in a slash
Written(path) ==
    CHOOSE w \in (PathSegments \X BOOLEAN) : Join(w[1], w[2]) = path

\* the exposed/execute convention: /api/v1/exposed/ first, /execute/ last
MatchesConvention(path) ==
    LET g == Written(path)[1]
    IN  /\ Written(path)[2]
        /\ Len(g) >= 4
        /\ SubSeq(g, 1, 3) = <<"api", "v1", "exposed">>
        /\ g[Len(g)] = "execute"

\* the form /api/v1/exposed/{id}/execute/ with exactly one id segment
HasExecuteForm(path) ==
    LET g == Written(path)[1]
    IN  /\ Written(path)[2]
        /\ Len(g) = 5
        /\ SubSeq(g, 1, 3) = <<"api", "v1", "exposed">>
        /\ g[5] = "execute"

\* the segment that follows /api/v1/exposed/
ActionIdSegment(path) == Written(path)[1][4]

\* the operationId of the post operation of a path item, "" without one
PostOperationId(path_item) ==
    IF "post" \in DOMAIN path_item /\ "operationId" \in DOMAIN path_item.post
    THEN path_item.post.operationId
    ELSE ""

\* the entries of paths that match the convention, in document order
RECURSIVE MatchingEntries(_)
MatchingEntries(entries) ==
    IF entries = <<>> THEN <<>>
    ELSE (IF MatchesConvention(Head(entries)[1]) THEN <<Head(entries)>> ELSE <<>>)
            \o MatchingEntries(Tail(entries))

(* C9: the tool definitions formatted so far are, in document order, one   *)
(* function tool per path passed by the loop that starts with              *)
(* /api/v1/exposed/ and ends with /execute/, its name the operationId of   *)
(* the path's post operation ("" when it has none) and its description     *)
(* the segment after /api/v1/exposed/; at the return that is every such    *)
(* path of the document.                                                   *)
C9_OneToolPerMatchingPath ==
    pc \in {"paths", "done"}
        => LET matching ==
                   MatchingEntries(SubSeq(openapi_schema.paths, 1, path_pos - 1))
           IN  /\ pc = "done" => path_pos = Len(openapi_schema.paths) + 1
               /\ Len(formatted_tools) = Len(matching)
               /\ \A k \in 1..Len(matching) :
                     /\ formatted_tools[k].type = "function"
                     /\ formatted_tools[k].function.name =
                            PostOperationId(matching[k][2])
                     /\ formatted_tools[k].function.description =
                            ActionIdSegment(matching[k][1])

C9_Witness ==
    /\ pc = "done"
    /\ Len(openapi_schema.paths) = 2
    /\ Len(formatted_tools) = 2
    /\ formatted_tools[1].function.name = "op_b"
    /\ formatted_tools[1].function.description = "01XYZ"
    /\ formatted_tools[2].function.name = "op_a"
    /\ formatted_tools[2].function.description = "01ABC"

(* C10: the loop appends a tool definition for a path if and only if the   *)
(* path has the form /api/v1/exposed/{id}/execute/ with exactly one id     *)
(* segment and its path item has a post operation.                         *)
C10_ToolIffExecuteFormWithPost ==
    [][(pc = "paths" /\ path_pos <= Len(openapi_schema.paths))
          => (Len(formatted_tools') # Len(formatted_tools)
                <=> (/\ HasExecuteForm(openapi_schema.paths[path_pos][1])
                     /\ "post" \in DOMAIN openapi_schema.paths[path_pos][2]))]_vars

\* the names of the tool definitions of a list, in list order
ToolDefinitionNames(definitions) ==
    [k \in 1..Len(definitions) |-> definitions[k].function.name]

(* C11: at the return of one translation pass, resolving the name of each  *)
(* tool definition of the returned list against that list finds that very  *)
(* definition: its function, and so its description as the action id.      *)
C11_ResolvingOwnNameFindsDefinition ==
    pc = "done"
        => \A k \in 1..Len(formatted_tools) :
              find_function_tool_by_name(formatted_tools[k].function.name,
                                         formatted_tools)
                 = [found |-> TRUE, function |-> formatted_tools[k].function]

(* C12: at the return of one translation pass, the names of the returned   *)
(* tool definitions are pairwise distinct.                                 *)
C12_NamesPairwiseDistinct ==
    pc = "done"
        => \A i, j \in 1..Len(formatted_tools) :
              i # j => ToolDefinitionNames(formatted_tools)[i]
                          # ToolDefinitionNames(formatted_tools)[j]

\* the function tool of least position whose name equals name, or NotFound
FirstFunctionToolNamed(name, tool_list) ==
    LET hits == {i \in 1..Len(tool_list) :
                    /\ tool_list[i].type = "function"
                    /\ tool_list[i].function.name = name}
    IN  IF hits = {}
        THEN NotFound
        ELSE [found |-> TRUE,
              function |-> tool_list[CHOOSE i \in hits : \A j \in hits : i <= j].function]

(* C13: whenever the loop of execute_actions_from_assistant resolves a     *)
(* tool call, find_function_tool_by_name returns, for every name, the      *)
(* first function tool of the assistant whose name equals it, or None      *)
(* when there is none; the step leaves the assistant's tools as they       *)
(* were, so the same lookup after it returns the same result; and the      *)
(* request the step sends, if any, is addressed to that first tool.        *)
C13_LookupIsPureFirstMatch ==
    [][(pc = "batch" /\ idx <= Len(tool_calls))
          => (/\ \A name \in ToolNames :
                    find_function_tool_by_name(name, tools)
                        = FirstFunctionToolNamed(name, tools)
              /\ tools' = tools
              /\ \A name \in ToolNames :
                    find_function_tool_by_name(name, tools')
                        = find_function_tool_by_name(name, tools)
              /\ exec_log' # exec_log
                    => Last(exec_log').request.url[2] =
                          FirstFunctionToolNamed(tool_calls[idx].name,
                                                 tools).function.description)]_vars

C13_Witness ==
    /\ last_op = "execute_action"
    /\ exec_log # <<>>
    /\ idx = 2
    /\ tool_calls[1].name = "f"
    /\ Cardinality({i \in 1..Len(tools) :
                       tools[i].type = "function" /\ tools[i].function.name = "f"}) = 2
    /\ Last(exec_log).request.url[2] = "A1"

(* C14: when the fetch of the action schema fails, create_assistant ends   *)
(* in the RequestException without returning a value, no assistants.create *)
(* request has been or is sent, and the stored assistant and its tools     *)
(* are what they were.                                                     *)
C14_FetchFailureAbortsCreation ==
    [][(error' = "RequestException")
          => (/\ pc' = "raised"
              /\ retval' = "pending"
              /\ assistant_creates' = 0
              /\ assistant' = assistant
              /\ tools' = tools)]_vars

C14_Witness ==
    /\ pc = "raised"
    /\ error = "RequestException"
    /\ assistant = "asst_old"
    /\ assistant_creates = 0

\* the call of execute_action under observation has ended
ExecutionEnded == "outcome" \in DOMAIN execution

(* C15: a call of execute_action that has ended has sent exactly one       *)
(* request, to the execute URL of the given action id with the payload as  *)
(* its body; on a 200 response with a JSON body it returned the decoded    *)
(* body; on any other status it raised an error that carries the response *)
(* status and body, so that no other failing response with a different     *)
(* status or body gives the same error.                                    *)
C15_OneRequestThenBodyOrStatusAndBody ==
    ExecutionEnded
        => /\ execution.posts =
                 << [url |-> <<"/dynamic/exposed/", execution.action_id,
                               "/execute/">>,
                     json |-> execution.payload] >>
           /\ (execution.response.status_code = 200
                 /\ ~json_loads(execution.response.text).raised)
                 => /\ ~execution.outcome.raised
                    /\ execution.outcome.result =
                          json_loads(execution.response.text).value
           /\ execution.response.status_code # 200
                 => /\ execution.outcome.raised
                    /\ \A r \in Responses :
                          (/\ r.status_code # 200
                           /\ execute_action(execution.action_id,
                                             execution.payload, r).error
                                 = execution.outcome.error)
                             => (/\ r.status_code = execution.response.status_code
                                 /\ r.text = execution.response.text)

(* C16: within one run_assistant call, a step that calls execute_action    *)
(* does so for a tool call id it has not been called for before, also      *)
(* when the provider presents the same tool calls again because outputs    *)
(* are still pending.                                                      *)
C16_NoToolCallExecutedTwice ==
    [][Len(exec_log') > Len(exec_log)
          => Last(exec_log').tool_call_id \notin executed_ids]_vars

\* the ids of the tool calls of the batch that execute_action was called for
\* and returned for, in the order of the batch
SucceededIds ==
    SelectSeq(CallIds(tool_calls),
              LAMBDA id : Executions(id) >= 1 /\ id \notin exec_failed)

(* C17: the processing of the batch of a poll that observed requires_action *)
(* ends only in one submit_tool_outputs call, made when every tool call of  *)
(* the batch has been processed; the submitted outputs are, in the order of *)
(* the batch and once each, those of the tool calls that resolved and whose *)
(* execution succeeded, however few.                                        *)
C17_OneSubmissionOfTheSucceededCalls ==
    [][(pc = "batch" /\ pc' # "batch")
          => (/\ idx > Len(tool_calls)
              /\ last_op' = "submit_tool_outputs"
              /\ submits' = submits + 1
              /\ OutputIds(submitted') = SucceededIds)]_vars

\* the position in the batch of the tool call of that id
PositionInBatch(id) == CHOOSE i \in 1..Len(tool_calls) : tool_calls[i].id = id

\* the execute_action calls made for the batch were made in batch order, for
\* tool calls the loop has passed, and each has ended: in an output or in a
\* failure
ExecutedInBatchOrder ==
    (InBatch /\ ~(pc = "raised" /\ last_op = "check_run_state"))
        => /\ \A k \in 1..Len(exec_log) :
                 /\ \E i \in 1..Len(tool_calls) :
                       tool_calls[i].id = exec_log[k].tool_call_id
                 /\ PositionInBatch(exec_log[k].tool_call_id) < idx
                 /\ \/ exec_log[k].tool_call_id \in exec_failed
                    \/ \E o \in 1..Len(Outputs) :
                          Outputs[o].tool_call_id = exec_log[k].tool_call_id
           /\ \A k, l \in 1..Len(exec_log) :
                 k < l => PositionInBatch(exec_log[k].tool_call_id)
                             < PositionInBatch(exec_log[l].tool_call_id)

(* C18: within a batch, execute_action is called for one tool call per     *)
(* loop step, the tool call the loop is at, after the calls for the        *)
(* earlier tool calls have ended in an output or a failure; the outputs    *)
(* are submitted only when the loop has passed the last tool call, and no  *)
(* execution is made by or after the submission.                           *)
C18_SequentialInBatchOrder ==
    [][/\ ExecutedInBatchOrder'
       /\ Len(exec_log') > Len(exec_log)
             => (/\ pc = "batch"
                 /\ idx <= Len(tool_calls)
                 /\ ExecutedInBatchOrder
                 /\ Len(exec_log') = Len(exec_log) + 1
                 /\ Last(exec_log').tool_call_id = tool_calls[idx].id
                 /\ idx' = idx + 1)
       /\ submits' > submits
             => (/\ idx = Len(tool_calls) + 1
                 /\ exec_log' = exec_log
                 /\ executed_ids' = executed_ids)]_vars

C18_Witness ==
    /\ last_op = "submit_tool_outputs"
    /\ Len(tool_calls) = 2
    /\ Len(exec_log) = 2
    /\ exec_log[1].tool_call_id = tool_calls[1].id
    /\ exec_log[2].tool_call_id = tool_calls[2].id
    /\ exec_failed = {tool_calls[1].id}
    /\ OutputIds(submitted) = <<tool_calls[2].id>>

(* C20: every retrieval of the run status, the first one included, comes   *)
(* directly after a suspension, and with it as many suspensions as         *)
(* retrievals have been made, each of the one non-zero interval; a         *)
(* suspension never follows a suspension directly, and none is made once   *)
(* a terminal status has been observed.                                    *)
C20_OneFixedSuspensionBeforeEachPoll ==
    [][/\ polls' > polls
             => (/\ polls' = polls + 1
                 /\ last_op = "sleep"
                 /\ PollInterval > 0
                 /\ slept = PollInterval * polls')
       /\ slept' # slept
             => (/\ slept' = slept + PollInterval
                 /\ last_op # "sleep"
                 /\ current_status \notin TerminalStatuses)]_vars

C20_Witness ==
    /\ polls = 3
    /\ slept = 3 * PollInterval
    /\ last_op = "check_run_state"
    /\ submits = 1

(* C19: once a poll has observed completed, expired, canceled or failed,   *)
(* run_assistant makes no further poll or suspension; a poll that          *)
(* observes any other status leaves the loop running; and, failures of     *)
(* provider calls aside, run_assistant ends after a poll only when the     *)
(* status last observed is one of those four.                              *)
C19_PollingStopsOnlyOnTerminalStatus ==
    [][/\ (current_status \in TerminalStatuses)
             => (polls' = polls /\ slept' = slept)
       /\ (polls' > polls /\ error' # "APIError"
              /\ current_status' \notin TerminalStatuses)
             => (running_state' /\ pc' \in {"sleep", "batch"})
       /\ (pc' \in {"done", "raised"} /\ polls' >= 1 /\ error' # "APIError")
             => (current_status' \in TerminalStatuses)]_vars

\* the response is a 200 whose body is JSON: execute_action returns for it
Succeeds(response) ==
    response.status_code = 200 /\ ~json_loads(response.text).raised

\* the execute_action call the loop owes the tool call it is at: addressed to
\* the description of the first function tool of the call's name, with the
\* parsed arguments as the payload
OwedCall ==
    [tool_call_id |-> tool_calls[idx].id,
     request |->
        [url |-> <<"/dynamic/exposed/",
                   FirstFunctionToolNamed(tool_calls[idx].name,
                                          tools).function.description,
                   "/execute/">>,
         json |-> json_loads(tool_calls[idx].arguments).value]]

\* the tool_results the loop owes after that call, answered with response
OwedResults(response) ==
    IF Succeeds(response)
    THEN Append(tool_results,
                [tool_call_id |-> tool_calls[idx].id,
                 output |-> json_dumps(json_loads(response.text).value)])
    ELSE tool_results

(* C21: a loop step at a tool call whose name resolves and whose arguments *)
(* parse calls execute_action once, with the description of the resolved   *)
(* tool as the action id and the parsed arguments as the payload; whatever *)
(* the provider answers, the outputs after the step are the outputs before *)
(* it, followed, if the execution succeeded, by one output with the id of  *)
(* that tool call and the JSON encoding of the body of that answer.        *)
C21_ExecutionAndOutputOfTheSameCall ==
    [][(/\ pc = "batch"
        /\ idx <= Len(tool_calls)
        /\ FirstFunctionToolNamed(tool_calls[idx].name, tools).found
        /\ ~json_loads(tool_calls[idx].arguments).raised)
          => (/\ \A response \in Responses :
                    LET step == handle_tool_call(tool_calls[idx], tools,
                                                 response, tool_results)
                    IN  /\ step.calls = <<OwedCall>>
                        /\ step.tool_results = OwedResults(response)
                        /\ step.failed = ~Succeeds(response)
              /\ exec_log' = Append(exec_log, OwedCall)
              /\ \E response \in Responses :
                    /\ tool_results' = OwedResults(response)
                    /\ (tool_calls[idx].id \in exec_failed') = ~Succeeds(response))]_vars

C21_Witness ==
    /\ last_op = "execute_action"
    /\ idx = 3
    /\ Len(exec_log) = 2
    /\ tool_calls[1].name = "f"
    /\ tool_calls[2].name = "g"
    /\ exec_log[2].request.url[2] = "A2"
    /\ exec_log[2].request.json = [q |-> 1]
    /\ Len(tool_results) = 2
    /\ tool_results[2] = [tool_call_id |-> tool_calls[2].id,
                          output |-> "{\"rows\": 1}"]

\* the path item's post operation names a request-body schema by reference
HasRequestBodyRef(path_item) ==
    /\ "post" \in DOMAIN path_item
    /\ "requestBody" \in DOMAIN path_item.post

\* the schema that reference points to, {} when components has none of that name
ReferencedSchema(path_item, document) ==
    LET ref == path_item.post.requestBody.content["application/json"].schema["$ref"]
        schema_name == ref[Len(ref)]
    IN  IF schema_name \in DOMAIN document.components.schemas
        THEN document.components.schemas[schema_name]
        ELSE EmptyDict

\* an object schema without properties or required entries
EmptyObjectSchema ==
    [type |-> "object", properties |-> EmptyDict, required |-> <<>>]

(* C22: the tool definition the loop appends for a matching path has as    *)
(* parameters the type, properties and required of the schema the request  *)
(* body of the path refers to (object, {} and [] where the schema has      *)
(* none), and the empty object schema when the path has no request-body    *)
(* reference.                                                              *)
C22_ParametersFlattenedOrEmptyObject ==
    [][(/\ pc = "paths"
        /\ path_pos <= Len(openapi_schema.paths)
        /\ MatchesConvention(openapi_schema.paths[path_pos][1]))
          => LET path_item == openapi_schema.paths[path_pos][2]
                 parameters ==
                     formatted_tools'[Len(formatted_tools')].function.parameters
             IN  /\ Len(formatted_tools') = Len(formatted_tools) + 1
                 /\ parameters =
                       IF HasRequestBodyRef(path_item)
                       THEN LET schema == ReferencedSchema(path_item,
                                                           openapi_schema)
                            IN  [type |-> Get(schema, "type", "object"),
                                 properties |-> Get(schema, "properties",
                                                    EmptyDict),
                                 required |-> Get(schema, "required", <<>>)]
                       ELSE EmptyObjectSchema]_vars

====
